---- MODULE Spec2Model ----
(***************************************************************************)
(* SaperOnline: the host-authoritative multiplayer synchronisation of the  *)
(* Minesweeper App component (src/App.tsx, second revision, lines          *)
(* 557-1200), over the board engine (utils/gameLogic, expanded safe zone)  *)
(* and the NetworkManager transport (src/utils/network.ts).                *)
(*                                                                         *)
(* Two instances of App run, one per browser tab: "host" and "guest".      *)
(* Each instance has its React state (app[p]) and the values captured by   *)
(* the closures of its last render (view[p]): handlers READ view[p] and    *)
(* WRITE app[p]; Render(p) makes the two equal again.                      *)
(***************************************************************************)
EXTENDS Integers, Sequences, FiniteSets

\* ------------------------------------------------------------ bounds
MaxMines == 2      \* mines of the Custom difficulties the users set up
MaxCols == 6       \* columns of the Custom difficulties: MinDim..MaxCols
MaxOps == 3        \* user inputs (clicks, resets, settings) per behaviour
MaxQueue == 2      \* messages in flight towards one peer
MaxTimers == 2     \* pending setTimeout callbacks of one peer
MaxStale == 1      \* handlers that run before React has re-rendered
MaxTime == 2       \* seconds the timer counts up to
MaxCalls == 3      \* calls of NetworkManager.initialize per tab
MaxSide == 3       \* rows and columns of the boards gameLogic is run on alone
MaxLogicCalls == 2 \* gameLogic calls applied in a row to one board

\* ------------------------------------------------------------ program constants
MinDim == 5        \* Math.max(5, ...) of initGame
MaxDim == 1000     \* Math.min(1000, ...) of initGame

Peers == {"host", "guest"}
Other(p) == IF p = "host" THEN "guest" ELSE "host"

\* The cells the users click and right-click (all lie on every board).
ClickCells == {<<0, 0>>, <<4, 4>>}

\* The cells Math.floor(Math.random() * rows), Math.floor(Math.random() * cols)
\* draw during mine placement (all lie on every board).
RandCells == {<<0, 0>>, <<0, 1>>, <<1, 1>>, <<3, 3>>, <<4, 4>>}

\* ------------------------------------------------------------ board engine
DIRECTIONS ==
  {<<-1, 0>>, <<-1, 1>>, <<0, 1>>, <<1, 1>>, <<1, 0>>, <<1, -1>>, <<0, -1>>, <<-1, -1>>}

Min(a, b) == IF a < b THEN a ELSE b
Max(a, b) == IF a > b THEN a ELSE b

\* The positions of a rows x cols grid.
Grid(rows, cols) == (0 .. rows - 1) \X (0 .. cols - 1)

\* A BoardData value: board.length (rows), board[0].length (cols) and the
\* fields of its cells, kept per field: the positions whose isMine is true,
\* the positions whose status is revealed, those whose status is flagged
\* (every other cell is hidden), those whose exploded is true, and
\* neighborMines by position.
createEmptyBoard(rows, cols) ==
  [rows |-> rows, cols |-> cols, mines |-> {}, revealed |-> {}, flagged |-> {},
   exploded |-> {}, neighborMines |-> [pos \in Grid(rows, cols) |-> 0]]

\* useState<BoardData>([])
NoBoard == createEmptyBoard(0, 0)

InBoard(board, pos) == pos \in Grid(board.rows, board.cols)

StatusOf(board, pos) ==
  IF pos \in board.revealed THEN "revealed"
  ELSE IF pos \in board.flagged THEN "flagged" ELSE "hidden"

HiddenOf(board) == Grid(board.rows, board.cols) \ (board.revealed \cup board.flagged)

Neighbours(pos) == {<<pos[1] + d[1], pos[2] + d[2]>> : d \in DIRECTIONS}

\* initializeBoardWithMines reads board[r][c] for every r < difficulty.rows and
\* c < difficulty.cols: a board smaller than the difficulty makes it throw.
MinesThrows(board, difficulty) ==
  difficulty.rows > board.rows \/ difficulty.cols > board.cols

\* Cells the rejection-sampling loop may accept for the first click (row, col):
\* inside the difficulty's rectangle, not a mine yet, not the first click and
\* not one of its neighbours.  Math.random() is an input: its draws are
\* the cells of RandCells.
MineCandidates(board, difficulty, row, col) ==
  {pos \in Grid(difficulty.rows, difficulty.cols) \cap RandCells :
     /\ pos \notin board.mines
     /\ pos # <<row, col>>
     /\ pos \notin Neighbours(<<row, col>>)}

\* The mine sets the loop can end with: it runs until minesPlaced = mines.
MineChoices(board, difficulty, row, col) ==
  {M \in SUBSET MineCandidates(board, difficulty, row, col) :
     Cardinality(M) = difficulty.mines}

\* initializeBoardWithMines counting the mines of the four orthogonal
\* neighbours only.
initializeBoardOrthogonal(initialBoard, difficulty, M) ==
  LET mines == initialBoard.mines \cup M
      rect == Grid(difficulty.rows, difficulty.cols)
  IN [initialBoard EXCEPT
        !.mines = mines,
        !.neighborMines =
           [pos \in DOMAIN initialBoard.neighborMines |->
              IF pos \in rect /\ pos \notin mines
              THEN Cardinality({n \in Neighbours(pos) \cap rect \cap mines :
                                  n[1] = pos[1] \/ n[2] = pos[2]})
              ELSE initialBoard.neighborMines[pos]]]

\* The board returned once the loop has placed the mines M: the neighbour
\* numbers are computed for the cells of the difficulty's rectangle that are
\* not mines.
initializeBoardWithMines(initialBoard, difficulty, M) ==
  LET mines == initialBoard.mines \cup M
      rect == Grid(difficulty.rows, difficulty.cols)
  IN [initialBoard EXCEPT
        !.mines = mines,
        !.neighborMines =
           [pos \in DOMAIN initialBoard.neighborMines |->
              IF pos \in rect /\ pos \notin mines
              THEN Cardinality(Neighbours(pos) \cap rect \cap mines)
              ELSE initialBoard.neighborMines[pos]]]

\* DIRECTIONS in the order of the source, the order in which the flood fill
\* pushes the neighbours of a cell.
DirectionList ==
  <<(<<-1, 0>>), (<<-1, 1>>), (<<0, 1>>), (<<1, 1>>),
    (<<1, 0>>), (<<1, -1>>), (<<0, -1>>), (<<-1, -1>>)>>

\* The neighbours of pos that the flood fill pushes: in bounds and hidden.
PushedFrom(board, pos) ==
  LET around == [i \in 1 .. Len(DirectionList) |->
                   <<pos[1] + DirectionList[i][1], pos[2] + DirectionList[i][2]>>]
      Hidden(n) == InBoard(board, n) /\ StatusOf(board, n) = "hidden"
  IN SelectSeq(around, Hidden)

\* The flood fill pushing the neighbours of every cell it reveals, whatever
\* its neighborMines.
RECURSIVE floodQueueAll(_, _, _)
floodQueueAll(board, queue, visits) ==
  IF queue = <<>> THEN visits
  ELSE LET pos == Head(queue) IN
       IF StatusOf(board, pos) # "hidden"
       THEN floodQueueAll(board, Tail(queue), visits)
       ELSE LET current == [board EXCEPT !.revealed = @ \cup {pos}]
            IN floodQueueAll(current, Tail(queue) \o PushedFrom(current, pos),
                             Append(visits, pos))

\* The while loop of the flood fill, run on its queue: the cells it sets to
\* revealed, in order.  A cell taken from the queue that is not hidden any
\* more is skipped; the queue may hold a cell several times.
RECURSIVE floodQueue(_, _, _)
floodQueue(board, queue, visits) ==
  IF queue = <<>> THEN visits
  ELSE LET pos == Head(queue) IN
       IF StatusOf(board, pos) # "hidden"
       THEN floodQueue(board, Tail(queue), visits)
       ELSE LET current == [board EXCEPT !.revealed = @ \cup {pos}]
                pushed == IF board.neighborMines[pos] = 0
                          THEN PushedFrom(current, pos) ELSE <<>>
            IN floodQueue(current, Tail(queue) \o pushed, Append(visits, pos))

\* The breadth-first flood fill of revealCell: every hidden cell taken from
\* the queue is revealed, and a revealed "0" cell enqueues its hidden
\* in-bounds neighbours.
RECURSIVE FloodFill(_, _, _)
FloodFill(board, queue, revealed) ==
  IF queue = {} THEN revealed
  ELSE LET now == revealed \cup queue
           zero == {q \in queue : board.neighborMines[q] = 0}
           next == UNION {Neighbours(pos) \cap HiddenOf(board) : pos \in zero}
       IN FloodFill(board, next \ now, now)

\* revealCell without its guard on the status of the cell.
revealCellUnguarded(currentBoard, row, col) ==
  LET pos == <<row, col>> IN
  IF pos \in currentBoard.mines
  THEN [board |-> [currentBoard EXCEPT !.revealed = @ \cup {pos},
                                       !.flagged = @ \ {pos},
                                       !.exploded = @ \cup {pos}],
        exploded |-> TRUE]
  ELSE [board |-> [currentBoard EXCEPT
                     !.revealed = @ \cup FloodFill(currentBoard, {pos}, {}),
                     !.flagged = @ \ {pos}],
        exploded |-> FALSE]

revealCell(currentBoard, row, col) ==
  LET pos == <<row, col>> IN
  IF StatusOf(currentBoard, pos) # "hidden"
  THEN [board |-> currentBoard, exploded |-> FALSE]
  ELSE IF pos \in currentBoard.mines
  THEN [board |-> [currentBoard EXCEPT !.revealed = @ \cup {pos},
                                       !.exploded = @ \cup {pos}],
        exploded |-> TRUE]
  ELSE [board |-> [currentBoard EXCEPT
                     !.revealed = @ \cup FloodFill(currentBoard, {pos}, {})],
        exploded |-> FALSE]

\* toggleFlag without regard for revealed cells.
toggleFlagAny(currentBoard, row, col) ==
  LET pos == <<row, col>> IN
  IF pos \in currentBoard.flagged
  THEN [currentBoard EXCEPT !.flagged = @ \ {pos}]
  ELSE [currentBoard EXCEPT !.flagged = @ \cup {pos}, !.revealed = @ \ {pos}]

toggleFlag(currentBoard, row, col) ==
  LET pos == <<row, col>>
      status == StatusOf(currentBoard, pos)
  IN IF status = "hidden" THEN [currentBoard EXCEPT !.flagged = @ \cup {pos}]
     ELSE IF status = "flagged" THEN [currentBoard EXCEPT !.flagged = @ \ {pos}]
     ELSE currentBoard

\* checkWin reads board[r][c] for every r < difficulty.rows, c < difficulty.cols.
WinThrows(board, difficulty) ==
  difficulty.rows > board.rows \/ difficulty.cols > board.cols

checkWin(board, difficulty) ==
  LET revealedCount ==
        Cardinality((Grid(difficulty.rows, difficulty.cols) \cap board.revealed)
                    \ board.mines)
      safeCells == difficulty.rows * difficulty.cols - difficulty.mines
  IN revealedCount = safeCells

\* revealAllMines marking every mine it discloses on a loss as exploded.
revealAllMinesExploding(currentBoard, won) ==
  IF won
  THEN [currentBoard EXCEPT !.flagged = @ \cup currentBoard.mines,
                            !.revealed = @ \ currentBoard.mines]
  ELSE [currentBoard EXCEPT
          !.revealed = @ \cup (currentBoard.mines \ currentBoard.flagged),
          !.exploded = @ \cup (currentBoard.mines \ currentBoard.flagged)]

\* revealAllMines revealing the flagged mines as well on a loss.
revealAllMinesUnflagging(currentBoard, won) ==
  IF won
  THEN [currentBoard EXCEPT !.flagged = @ \cup currentBoard.mines,
                            !.revealed = @ \ currentBoard.mines]
  ELSE [currentBoard EXCEPT !.revealed = @ \cup currentBoard.mines,
                            !.flagged = @ \ currentBoard.mines]

\* On a win every mine becomes flagged; on a loss every mine that is not
\* flagged becomes revealed.
revealAllMines(currentBoard, won) ==
  IF won
  THEN [currentBoard EXCEPT !.flagged = @ \cup currentBoard.mines,
                            !.revealed = @ \ currentBoard.mines]
  ELSE [currentBoard EXCEPT
          !.revealed = @ \cup (currentBoard.mines \ currentBoard.flagged)]

\* ------------------------------------------------------------ difficulties
Custom == "Custom"   \* DIFFICULTIES[3].name, the user-editable difficulty

\* The Custom difficulties the users of the model set up (before hosting or
\* joining a user may have set any of them in a single-player session).
Difficulties ==
  [name : {Custom}, rows : {MinDim}, cols : MinDim .. MaxCols, mines : {MaxMines}]

clamp(n) == Max(MinDim, Min(MaxDim, n))

\* ------------------------------------------------------------ App state
\* The useState values of one App instance, and the mode of its Lobby
\* component (the Lobby of a host shows the start button).
AppInit(difficulty, guestConnected, waitingForHost) ==
  [difficulty |-> difficulty, board |-> NoBoard, gameStatus |-> "idle",
   timeElapsed |-> 0, flagsCount |-> 0, flagHistory |-> <<>>,
   gameMode |-> "menu", guestConnected |-> guestConnected,
   waitingForHost |-> waitingForHost,
   lobby |-> IF guestConnected THEN "host" ELSE IF waitingForHost THEN "join" ELSE "menu"]

\* What a handler does: the new React state, the messages handed to
\* network.send, the setTimeout callbacks it registers, and what becomes of
\* the data connection (link).
Effect(s, out, timers) ==
  [s |-> s, out |-> out, timers |-> timers, init |-> FALSE, link |-> "same"]

\* The same, of a handler that called initGame.
EffectInit(s, out, timers) ==
  [s |-> s, out |-> out, timers |-> timers, init |-> TRUE, link |-> "same"]

\* The same, of a handler that called network.destroy().
EffectDestroy(s) ==
  [s |-> s, out |-> <<>>, timers |-> <<>>, init |-> FALSE, link |-> "destroy"]

\* A registered setTimeout callback; it keeps the closure of the render it
\* was created in (the closure's difficulty and gameMode).
InitTimer(delay, v) ==
  [delay |-> delay, kind |-> "initGame", difficulty |-> v.difficulty,
   rows |-> 0, cols |-> 0, gameMode |-> v.gameMode]
SyncTimer(delay, v, rows, cols) ==
  [delay |-> delay, kind |-> "sync", difficulty |-> v.difficulty,
   rows |-> rows, cols |-> cols, gameMode |-> v.gameMode]

SyncBoard(board, status, time, flags) ==
  [type |-> "SYNC_BOARD", board |-> board, status |-> status, time |-> time,
   flags |-> flags]

\* initGame of the render whose difficulty is `difficulty`, applied to state s.
initGame(difficulty, s) ==
  [s EXCEPT !.board = createEmptyBoard(clamp(difficulty.rows), clamp(difficulty.cols)),
            !.gameStatus = "idle", !.timeElapsed = 0, !.flagsCount = 0,
            !.flagHistory = <<>>]

\* syncStateToGuest of the render v: sends only if that render's gameMode is
\* multi_host.
syncStateToGuest(v, currentBoard, status, time, flags) ==
  IF v.gameMode = "multi_host" THEN <<SyncBoard(currentBoard, status, time, flags)>>
  ELSE <<>>

\* handleCellClick(row, col) of the render v, on state s; M is the set of
\* mines Math.random() makes initializeBoardWithMines place.
handleCellClick(v, s, row, col, M) ==
  LET pos == <<row, col>> IN
  IF v.gameStatus \in {"won", "lost"} THEN Effect(s, <<>>, <<>>)
  ELSE IF row < v.board.rows /\ ~InBoard(v.board, pos)
  THEN Effect(s, <<>>, <<>>)           \* TypeError: board[row][col] is undefined
  ELSE IF InBoard(v.board, pos) /\ StatusOf(v.board, pos) = "flagged"
  THEN Effect(s, <<>>, <<>>)
  ELSE IF v.gameMode = "multi_guest"
  THEN Effect(s, <<[type |-> "CLICK_CELL", row |-> row, col |-> col]>>, <<>>)
  ELSE
    LET idle == v.gameStatus = "idle"
        s1 == IF idle THEN [s EXCEPT !.gameStatus = "playing"] ELSE s
        newStatus == IF idle THEN "playing" ELSE v.gameStatus
    IN IF (idle /\ MinesThrows(v.board, v.difficulty)) \/ ~InBoard(v.board, pos)
       THEN Effect(s1, <<>>, <<>>)     \* TypeError: the handler stops here
       ELSE
         LET newBoard == IF idle THEN initializeBoardWithMines(v.board, v.difficulty, M)
                         ELSE v.board
             res == revealCell(newBoard, row, col)
             s2 == [s1 EXCEPT !.board = res.board]
         IN IF res.exploded
            THEN LET finalBoard == revealAllMines(res.board, FALSE)
                 IN Effect([s2 EXCEPT !.gameStatus = "lost", !.board = finalBoard],
                           syncStateToGuest(v, finalBoard, "lost", v.timeElapsed,
                                            v.flagsCount),
                           <<>>)
            ELSE IF WinThrows(res.board, v.difficulty)
            THEN Effect(s2, <<>>, <<>>)  \* TypeError in checkWin
            ELSE IF checkWin(res.board, v.difficulty)
            THEN LET finalBoard == revealAllMines(res.board, TRUE)
                 IN Effect([s2 EXCEPT !.board = finalBoard, !.gameStatus = "won"],
                           syncStateToGuest(v, finalBoard, "won", v.timeElapsed,
                                            v.flagsCount),
                           <<>>)
            ELSE Effect(s2,
                        syncStateToGuest(v, res.board, newStatus, v.timeElapsed,
                                         v.flagsCount),
                        <<>>)

\* The mine sets handleCellClick can be run with.
ClickMines(v, row, col) ==
  IF /\ v.gameStatus = "idle"
     /\ v.gameMode # "multi_guest"
     /\ InBoard(v.board, <<row, col>>)
     /\ StatusOf(v.board, <<row, col>>) # "flagged"
     /\ ~MinesThrows(v.board, v.difficulty)
  THEN MineChoices(v.board, v.difficulty, row, col)
  ELSE {{}}

performFlagToggle(v, s, row, col) ==
  LET status == StatusOf(v.board, <<row, col>>) IN
  IF status = "revealed" THEN Effect(s, <<>>, <<>>)
  ELSE LET newFlags == IF status = "hidden" THEN v.flagsCount + 1
                       ELSE v.flagsCount - 1
           newBoard == toggleFlag(v.board, row, col)
       IN Effect([s EXCEPT !.flagsCount = newFlags, !.board = newBoard],
                 syncStateToGuest(v, newBoard, v.gameStatus, v.timeElapsed, newFlags),
                 <<>>)

\* handleRightClick without its guest branch: the guest toggles the flag on
\* its own copy of the board.
handleRightClickLocally(v, s, row, col) ==
  IF v.gameStatus \in {"won", "lost"} THEN Effect(s, <<>>, <<>>)
  ELSE IF ~InBoard(v.board, <<row, col>>) THEN Effect(s, <<>>, <<>>)
  ELSE LET e == performFlagToggle(v, s, row, col)
       IN Effect([e.s EXCEPT !.flagHistory = Append(@, <<row, col>>)], e.out, <<>>)

handleRightClick(v, s, row, col) ==
  IF v.gameStatus \in {"won", "lost"} THEN Effect(s, <<>>, <<>>)
  ELSE IF v.gameMode = "multi_guest"
  THEN Effect(s, <<[type |-> "RIGHT_CLICK_CELL", row |-> row, col |-> col]>>, <<>>)
  ELSE IF ~InBoard(v.board, <<row, col>>) THEN Effect(s, <<>>, <<>>)  \* TypeError
  ELSE LET e == performFlagToggle(v, s, row, col)
       IN Effect([e.s EXCEPT !.flagHistory = Append(@, <<row, col>>)], e.out, <<>>)

handleUndoFlag(v, s) ==
  IF v.gameStatus \in {"won", "lost"} THEN Effect(s, <<>>, <<>>)
  ELSE IF Len(v.flagHistory) = 0 THEN Effect(s, <<>>, <<>>)
  ELSE IF v.gameMode = "multi_guest" THEN Effect(s, <<>>, <<>>)
  ELSE LET lastAction == v.flagHistory[Len(v.flagHistory)]
           e == performFlagToggle(v, s, lastAction[1], lastAction[2])
       IN Effect([e.s EXCEPT !.flagHistory =
                    IF Len(@) = 0 THEN @ ELSE SubSeq(@, 1, Len(@) - 1)],
                 e.out, <<>>)

handleReset(v, s) ==
  IF v.gameMode = "multi_guest"
  THEN Effect(s, <<[type |-> "RESTART", difficulty |-> v.difficulty]>>, <<>>)
  ELSE EffectInit(initGame(v.difficulty, s), <<>>,
              IF v.gameMode = "multi_host"
              THEN <<SyncTimer(50, v, v.difficulty.rows, v.difficulty.cols)>>
              ELSE <<>>)

\* The functional update without its last line: a mines value below 1 is kept.
UpdatedDifficultyUnfloored(prev, key, value) ==
  LET set == [prev EXCEPT ![key] = value]
      dims == IF key \in {"rows", "cols"}
              THEN [set EXCEPT ![key] = IF value < MinDim THEN MinDim
                                        ELSE IF value > MaxDim THEN MaxDim ELSE value]
              ELSE set
      maxMines == dims.rows * dims.cols - 1
  IN IF dims.mines > maxMines THEN [dims EXCEPT !.mines = maxMines] ELSE dims

\* The functional update of handleUpdateCustomSettings.
UpdatedDifficulty(prev, key, value) ==
  LET set == [prev EXCEPT ![key] = value]
      dims == IF key \in {"rows", "cols"}
              THEN [set EXCEPT ![key] = IF value < MinDim THEN MinDim
                                        ELSE IF value > MaxDim THEN MaxDim ELSE value]
              ELSE set
      maxMines == dims.rows * dims.cols - 1
      capped == IF dims.mines > maxMines THEN [dims EXCEPT !.mines = maxMines] ELSE dims
  IN IF key = "mines" /\ value < 1 THEN [capped EXCEPT !.mines = 1] ELSE capped

handleUpdateCustomSettings(v, s, key, value) ==
  IF v.difficulty.name # Custom THEN Effect(s, <<>>, <<>>)
  ELSE IF v.gameMode = "multi_guest" THEN Effect(s, <<>>, <<>>)
  ELSE Effect([s EXCEPT !.difficulty = UpdatedDifficulty(@, key, value)], <<>>, <<>>)

handleStartMultiplayer(v, s) ==
  IF ~v.guestConnected THEN Effect(s, <<>>, <<>>)
  ELSE EffectInit(initGame(v.difficulty, [s EXCEPT !.gameMode = "multi_host"]),
              <<[type |-> "START_GAME", difficulty |-> v.difficulty]>>,
              <<SyncTimer(100, v, v.difficulty.rows, v.difficulty.cols)>>)

\* network.onData that dispatches on the type of the message alone, whatever
\* the role of the peer.
onDataAnyRole(v, s, data, M) ==
  IF data.type = "START_GAME"
  THEN Effect([s EXCEPT !.difficulty = data.difficulty, !.waitingForHost = FALSE,
                        !.gameMode = "multi_guest"],
              <<>>, <<InitTimer(50, v)>>)
  ELSE IF data.type = "SYNC_BOARD"
  THEN Effect([s EXCEPT !.board = data.board, !.gameStatus = data.status,
                        !.timeElapsed = data.time, !.flagsCount = data.flags],
              <<>>, <<>>)
  ELSE IF data.type = "UPDATE_LOBBY"
  THEN Effect([s EXCEPT !.difficulty = data.difficulty], <<>>, <<>>)
  ELSE IF data.type = "CLICK_CELL"
  THEN handleCellClick(v, s, data.row, data.col, M)
  ELSE IF data.type = "RIGHT_CLICK_CELL"
  THEN handleRightClick(v, s, data.row, data.col)
  ELSE Effect([s EXCEPT !.difficulty = data.difficulty], <<>>,
              <<InitTimer(50, v),
                SyncTimer(100, v, clamp(data.difficulty.rows),
                          clamp(data.difficulty.cols))>>)

\* network.onData whose host branch is a plain else: it does not test that
\* gameMode is multi_host.
onDataAnyMode(v, s, data, M) ==
  IF v.gameMode = "multi_guest" \/ v.waitingForHost
  THEN IF data.type = "START_GAME"
       THEN Effect([s EXCEPT !.difficulty = data.difficulty, !.waitingForHost = FALSE,
                             !.gameMode = "multi_guest"],
                   <<>>, <<InitTimer(50, v)>>)
       ELSE IF data.type = "SYNC_BOARD"
       THEN Effect([s EXCEPT !.board = data.board, !.gameStatus = data.status,
                             !.timeElapsed = data.time, !.flagsCount = data.flags],
                   <<>>, <<>>)
       ELSE IF data.type = "UPDATE_LOBBY"
       THEN Effect([s EXCEPT !.difficulty = data.difficulty], <<>>, <<>>)
       ELSE Effect(s, <<>>, <<>>)
  ELSE IF data.type = "CLICK_CELL"
  THEN handleCellClick(v, s, data.row, data.col, M)
  ELSE IF data.type = "RIGHT_CLICK_CELL"
  THEN handleRightClick(v, s, data.row, data.col)
  ELSE IF data.type = "RESTART"
  THEN Effect([s EXCEPT !.difficulty = data.difficulty], <<>>,
              <<InitTimer(50, v),
                SyncTimer(100, v, clamp(data.difficulty.rows),
                          clamp(data.difficulty.cols))>>)
  ELSE Effect(s, <<>>, <<>>)

\* network.onData as registered by the effect of the render v.
onData(v, s, data, M) ==
  IF v.gameMode = "multi_guest" \/ v.waitingForHost
  THEN IF data.type = "START_GAME"
       THEN Effect([s EXCEPT !.difficulty = data.difficulty, !.waitingForHost = FALSE,
                             !.gameMode = "multi_guest"],
                   <<>>, <<InitTimer(50, v)>>)
       ELSE IF data.type = "SYNC_BOARD"
       THEN Effect([s EXCEPT !.board = data.board, !.gameStatus = data.status,
                             !.timeElapsed = data.time, !.flagsCount = data.flags],
                   <<>>, <<>>)
       ELSE IF data.type = "UPDATE_LOBBY"
       THEN Effect([s EXCEPT !.difficulty = data.difficulty], <<>>, <<>>)
       ELSE Effect(s, <<>>, <<>>)
  ELSE IF v.gameMode = "multi_host"
  THEN IF data.type = "CLICK_CELL"
       THEN handleCellClick(v, s, data.row, data.col, M)
       ELSE IF data.type = "RIGHT_CLICK_CELL"
       THEN handleRightClick(v, s, data.row, data.col)
       ELSE IF data.type = "RESTART"
       THEN Effect([s EXCEPT !.difficulty = data.difficulty], <<>>,
                   <<InitTimer(50, v),
                     SyncTimer(100, v, clamp(data.difficulty.rows),
                               clamp(data.difficulty.cols))>>)
       ELSE Effect(s, <<>>, <<>>)
  ELSE Effect(s, <<>>, <<>>)

\* The mine sets onData can be run with.
DataMines(v, data) ==
  IF v.gameMode = "multi_host" /\ ~v.waitingForHost /\ data.type = "CLICK_CELL"
  THEN ClickMines(v, data.row, data.col)
  ELSE {{}}

\* handleLobbyDifficultyChange: the host picks a difficulty in the Lobby.
handleLobbyDifficultyChange(v, s, newDiff) ==
  Effect([s EXCEPT !.difficulty = newDiff],
         IF v.guestConnected THEN <<[type |-> "UPDATE_LOBBY", difficulty |-> newDiff]>>
         ELSE <<>>,
         <<>>)

\* network.onError as registered by the effect of the render v.
onError(v, s) ==
  IF v.gameMode # "menu"
  THEN EffectDestroy([s EXCEPT !.waitingForHost = FALSE, !.gameMode = "menu"])
  ELSE Effect([s EXCEPT !.waitingForHost = FALSE], <<>>, <<>>)

\* handleBackToMenu, from the game screen or from the Lobby (whose back
\* button also sets the Lobby's mode to menu).
handleBackToMenu(v, s) ==
  EffectDestroy([s EXCEPT !.gameMode = "menu", !.guestConnected = FALSE,
                          !.waitingForHost = FALSE,
                          !.lobby = IF v.gameMode = "menu" THEN "menu" ELSE @])

\* A setTimeout callback running on state s.
runTimer(t, s) ==
  IF t.kind = "initGame" THEN EffectInit(initGame(t.difficulty, s), <<>>, <<>>)
  ELSE Effect(s, syncStateToGuest(t, createEmptyBoard(t.rows, t.cols), "idle", 0, 0), <<>>)

\* ------------------------------------------------------------ the two tabs
VARIABLES
  app,      \* app[p]: the React state of p's App instance
  view,     \* view[p]: the state p's last render captured in its closures
  net,      \* net[p]: the messages in flight towards p, in send order
  timers,   \* timers[p]: p's pending setTimeout callbacks, in registration order
  ops,      \* number of user inputs so far
  stale,    \* number of handlers that ran without a re-render after them
  late,     \* history: late[i] iff the host called initGame after net["host"][i]
            \* was sent
  conn,     \* conn[p]: p's DataConnection is "none" (this.conn is null),
            \* "connecting" (set up, not open yet), "open", "closing" (closed
            \* by the other end or by the transport, its close event not yet
            \* handled), "closed", or "destroyed" (network.destroy() has run)
  listening, \* listening[p]: network.onData and network.onError of p are set
  manager,  \* manager[p]: the Peer objects of p's NetworkManager and its
            \* onConnect callback
  logic     \* the gameLogic functions run on their own: the arguments and
            \* the result of the call under way

vars ==
  <<app, view, net, timers, ops, stale, late, conn, listening, manager, logic>>

\* No gameLogic function is run on its own while the App runs.
NoCall == [fn |-> "none"]

\* The Peer objects of a NetworkManager: peer is this.peer (0 for null), the
\* Peers created so far are 1 .. made, live are those not destroyed, waiting
\* counts the initialize calls suspended in the 500 ms grace period of
\* cleanupOldPeer, and calls counts the calls of initialize.  destroyed
\* records that destroy() has been called since the last call of initialize.
\* isHost and code are the arguments of the last call of initialize ("none"
\* for a call without a code), and opened records that this.peer has had its
\* open event.
\* onConnect is the difficulty captured by the closure that handleHostGame
\* stored in network.onConnect.
\* A manager whose initialize has run once.
ManagerInit ==
  [peer |-> 1, made |-> 1, live |-> {1}, waiting |-> 0, calls |-> 0,
   destroyed |-> FALSE, isHost |-> FALSE, code |-> "none", opened |-> TRUE,
   onConnect |-> [name |-> Custom, rows |-> MinDim, cols |-> MinDim,
                  mines |-> MaxMines]]

\* A manager as constructed: peer is null.
ManagerNew ==
  [ManagerInit EXCEPT !.peer = 0, !.made = 0, !.live = {}, !.opened = FALSE]

\* The Peer part of destroy(): this.peer.destroy(), this.peer = null.
destroyPeer(m) == [m EXCEPT !.live = @ \ {m.peer}, !.peer = 0]

\* The rest of initialize after `await this.cleanupOldPeer()`:
\* this.peer = new Peer(...).
createPeer(m) == [m EXCEPT !.made = @ + 1, !.live = @ \cup {m.made + 1},
                           !.peer = m.made + 1, !.opened = FALSE]

\* initialize up to the point where it is suspended.  Without an old peer
\* cleanupOldPeer does not wait, and the rest of initialize runs as a
\* microtask before any other handler.
initialize(m) ==
  IF m.peer # 0
  THEN [destroyPeer(m) EXCEPT !.waiting = @ + 1, !.calls = @ + 1,
                              !.destroyed = FALSE]
  ELSE [createPeer(m) EXCEPT !.calls = @ + 1, !.destroyed = FALSE]

\* The state after React has re-rendered state s over the render v and run
\* the effects: in a single-player session the init effect calls initGame
\* when initGame (its difficulty) or gameMode changed.  The game screen
\* replaces the Lobby, which is mounted again in its menu mode.
Rendered(v, s) ==
  IF s.gameMode = "single" /\ (s.difficulty # v.difficulty \/ s.gameMode # v.gameMode)
  THEN initGame(s.difficulty, [s EXCEPT !.lobby = "menu"])
  ELSE IF s.gameMode # "menu" THEN [s EXCEPT !.lobby = "menu"]
  ELSE s

\* A handler ran on peer p with effect e: its setState calls, network.send
\* calls and setTimeout calls.  inbox and pending are what the handler left
\* of p's incoming messages and pending timeouts.  React re-renders after
\* a handler that React called itself (sync: a click, a key, an input).  After
\* a network.onData or setTimeout callback the re-render is scheduled, and
\* the next event of p may be handled before it: a re-render is not delayed
\* for longer than that, so the other tab does not act in between (Turn).
\* A handler run that changes nothing at all is a stuttering step.
Turn(p) == view[Other(p)] = app[Other(p)]

\* network.send hands a message to the connection only if it is open.
Wire(p, out) == IF conn[p] = "open" THEN out ELSE <<>>

Step(p, e, inbox, pending, sync) ==
  /\ Turn(p)
  /\ e.s # app[p] \/ e.out # <<>> \/ e.timers # <<>> \/ inbox # net[p]
     \/ pending # timers[p] \/ e.link # "same"
  /\ Len(net[Other(p)]) + Len(e.out) <= MaxQueue
  /\ Len(pending) + Len(e.timers) <= MaxTimers
  /\ net' = [q \in Peers |-> IF q = p THEN inbox ELSE net[q] \o Wire(p, e.out)]
  /\ late' = IF p = "guest" THEN late \o [i \in 1 .. Len(Wire(p, e.out)) |-> FALSE]
             ELSE IF e.init THEN [i \in 1 .. Len(inbox) |-> TRUE]
             ELSE SubSeq(late, Len(late) - Len(inbox) + 1, Len(late))
  /\ timers' = [timers EXCEPT ![p] = pending \o e.timers]
  /\ conn' = [q \in Peers |->
               IF q = p THEN (IF e.link = "same" THEN conn[q]
                              ELSE IF e.link = "destroy" THEN "destroyed"
                              ELSE "closed")
               ELSE IF e.link = "destroy" /\ conn[q] = "open" THEN "closing"
               ELSE conn[q]]
  /\ manager' = IF e.link = "destroy"
                THEN [manager EXCEPT ![p] = [destroyPeer(@) EXCEPT !.destroyed = TRUE]]
                ELSE manager
  /\ logic' = logic
  /\ \/ /\ app' = [app EXCEPT ![p] = Rendered(view[p], e.s)]
        /\ view' = [view EXCEPT ![p] = Rendered(view[p], e.s)]
        /\ stale' = stale
        /\ listening' = [listening EXCEPT ![p] = TRUE]
     \/ /\ ~sync
        /\ e.s # view[p]
        /\ stale < MaxStale
        /\ app' = [app EXCEPT ![p] = e.s]
        /\ view' = view
        /\ stale' = stale + 1
        /\ listening' = [listening EXCEPT ![p] = @ /\ e.link # "destroy"]

UserOp == ops < MaxOps /\ ops' = ops + 1

\* The game screen is rendered (gameMode is not menu).
InGame(p) == view[p].gameMode # "menu"

\* The connected lobby: the host has opened a lobby and the guest's data
\* connection to it is open (guestConnected on the host, waitingForHost on
\* the guest).  Each user has some Custom difficulty selected.
Init ==
  /\ \E dh \in Difficulties, dg \in Difficulties :
       app = [p \in Peers |-> IF p = "host" THEN AppInit(dh, TRUE, FALSE)
                              ELSE AppInit(dg, FALSE, TRUE)]
  /\ view = app
  /\ net = [p \in Peers |-> <<>>]
  /\ timers = [p \in Peers |-> <<>>]
  /\ ops = 0
  /\ stale = 0
  /\ late = <<>>
  /\ conn = [p \in Peers |-> "open"]
  /\ listening = [p \in Peers |-> TRUE]
  /\ manager = [p \in Peers |-> ManagerInit]
  /\ logic = NoCall

\* The host presses "start game" in the lobby.
StartMultiplayer(p) ==
  /\ view[p].gameMode = "menu" /\ view[p].lobby = "host" /\ view[p].guestConnected
  /\ Step(p, handleStartMultiplayer(view[p], app[p]),
          net[p], timers[p], TRUE)
  /\ UNCHANGED ops

\* A left click on a rendered cell.
CellClick(p, pos) ==
  /\ InGame(p) /\ InBoard(view[p].board, pos)
  /\ UserOp
  /\ \E M \in ClickMines(view[p], pos[1], pos[2]) :
       Step(p, handleCellClick(view[p], app[p], pos[1], pos[2], M),
            net[p], timers[p], TRUE)

\* A right click on a rendered cell.
RightClick(p, pos) ==
  /\ InGame(p) /\ InBoard(view[p].board, pos)
  /\ UserOp
  /\ Step(p, handleRightClick(view[p], app[p], pos[1], pos[2]),
          net[p], timers[p], TRUE)

\* Ctrl+Z or the undo button.
UndoFlag(p) ==
  /\ InGame(p)
  /\ UserOp
  /\ Step(p, handleUndoFlag(view[p], app[p]), net[p], timers[p], TRUE)

\* The reset button.
Reset(p) ==
  /\ InGame(p)
  /\ UserOp
  /\ Step(p, handleReset(view[p], app[p]), net[p], timers[p], TRUE)

\* The values typed into the Custom difficulty inputs.
SettingInputs == [cols |-> {MinDim - 1, MaxCols}, mines |-> {-1, MaxMines}]

UpdateCustomSettings(p, key, value) ==
  /\ InGame(p)
  /\ UserOp
  /\ Step(p,
          handleUpdateCustomSettings(view[p], app[p], key, value), net[p], timers[p], TRUE)

\* The transport hands the oldest message in flight to p's network.onData,
\* once p's DataConnection has opened.
Deliver(p) ==
  /\ net[p] # <<>>
  /\ conn[p] # "connecting"
  /\ \E M \in DataMines(view[p], Head(net[p])) :
       Step(p, IF listening[p] THEN onData(view[p], app[p], Head(net[p]), M)
               ELSE Effect(app[p], <<>>, <<>>),
            Tail(net[p]), timers[p], FALSE)
  /\ UNCHANGED ops

\* A timeout is due before another if it was registered earlier with a delay
\* that is not longer.
Due(p, i) ==
  /\ i \in 1 .. Len(timers[p])
  /\ \A j \in 1 .. i - 1 : timers[p][j].delay > timers[p][i].delay

RemoveAt(seq, i) == SubSeq(seq, 1, i - 1) \o SubSeq(seq, i + 1, Len(seq))

Timeout(p, i) ==
  /\ Due(p, i)
  /\ Step(p, runTimer(timers[p][i], app[p]), net[p],
          RemoveAt(timers[p], i), FALSE)
  /\ UNCHANGED ops

\* React re-renders p: the closures capture the current state.
Render(p) ==
  /\ view[p] # app[p]
  /\ app' = [app EXCEPT ![p] = Rendered(view[p], app[p])]
  /\ view' = [view EXCEPT ![p] = Rendered(view[p], app[p])]
  /\ listening' = [listening EXCEPT ![p] = TRUE]
  /\ UNCHANGED <<net, timers, ops, stale, late, conn, manager, logic>>

Next ==
  \/ \E p \in Peers : StartMultiplayer(p)
  \/ \E p \in Peers, pos \in ClickCells : CellClick(p, pos)
  \/ \E p \in Peers, pos \in ClickCells : RightClick(p, pos)
  \/ \E p \in Peers : UndoFlag(p)
  \/ \E p \in Peers : Reset(p)
  \/ \E p \in Peers, key \in DOMAIN SettingInputs :
       \E value \in SettingInputs[key] : UpdateCustomSettings(p, key, value)
  \/ \E p \in Peers : Deliver(p)
  \/ \E p \in Peers, i \in 1 .. MaxTimers : Timeout(p, i)
  \/ \E p \in Peers : Render(p)

Spec == Init /\ [][Next]_vars

\* ------------------------------------------------------------ the timer
\* The interval of the timer effect fires on p.  The effect of the last render
\* set it up iff that render's gameStatus was playing, and the cleanup of the
\* next render with another gameStatus clears it.  The callback is the
\* functional update prev => prev + 1.
Tick(p) ==
  /\ view[p].gameStatus = "playing"
  /\ app[p].timeElapsed < MaxTime
  /\ Step(p, Effect([app[p] EXCEPT !.timeElapsed = @ + 1], <<>>, <<>>),
          net[p], timers[p], FALSE)
  /\ UNCHANGED ops

\* The game with its timer running.
TimerNext ==
  \/ Next
  \/ \E p \in Peers : Tick(p)

SpecTimer == Init /\ [][TimerNext]_vars

\* One game with its timer running: nobody presses reset, so every state
\* from the start on belongs to the same game.
OneGameNext ==
  \/ \E p \in Peers : StartMultiplayer(p)
  \/ \E p \in Peers, pos \in ClickCells : CellClick(p, pos)
  \/ \E p \in Peers, pos \in ClickCells : RightClick(p, pos)
  \/ \E p \in Peers : UndoFlag(p)
  \/ \E p \in Peers : Deliver(p)
  \/ \E p \in Peers, i \in 1 .. MaxTimers : Timeout(p, i)
  \/ \E p \in Peers : Render(p)
  \/ \E p \in Peers : Tick(p)

SpecOneGame == Init /\ [][OneGameNext]_vars

\* ------------------------------------------------------------ teardown
\* The back-to-menu button of the game screen, or the back button of the
\* Lobby of a host or of a guest.
BackToMenu(p) ==
  /\ InGame(p) \/ view[p].lobby # "menu"
  /\ UserOp
  /\ Step(p, handleBackToMenu(view[p], app[p]), net[p], timers[p], TRUE)

\* The transport loses the link between the two peers.
LinkDrop ==
  /\ \A p \in Peers : conn[p] = "open" /\ view[p] = app[p]
  /\ conn' = [p \in Peers |-> "closing"]
  /\ UNCHANGED <<app, view, net, timers, ops, stale, late, listening, manager, logic>>

\* The close event of p's DataConnection: its handler calls network.onError
\* if it is set.
ConnClosed(p) ==
  /\ conn[p] = "closing"
  /\ LET e == IF listening[p] THEN onError(view[p], app[p])
              ELSE Effect(app[p], <<>>, <<>>)
     IN Step(p, [e EXCEPT !.link = IF @ = "same" THEN "closed" ELSE @],
             net[p], timers[p], FALSE)
  /\ UNCHANGED ops

\* The host's Lobby shows the difficulty buttons.
LobbyDifficultyChange(p, newDiff) ==
  /\ view[p].gameMode = "menu" /\ view[p].lobby = "host"
  /\ UserOp
  /\ Step(p, handleLobbyDifficultyChange(view[p], app[p], newDiff),
          net[p], timers[p], TRUE)

\* Both users have the smallest Custom difficulty selected when the guest
\* joins the lobby.
LinkInit ==
  /\ Init
  /\ \A p \in Peers : app[p].difficulty.cols = MinDim

\* The session with its connection: the host sets the lobby up and starts,
\* both play, either user may leave and the link may drop.
LinkNext ==
  \/ \E p \in Peers : StartMultiplayer(p)
  \/ \E p \in Peers, newDiff \in Difficulties : LobbyDifficultyChange(p, newDiff)
  \/ \E p \in Peers, pos \in ClickCells : CellClick(p, pos)
  \/ \E p \in Peers, pos \in ClickCells : RightClick(p, pos)
  \/ \E p \in Peers : Reset(p)
  \/ \E p \in Peers : Deliver(p)
  \/ \E p \in Peers, i \in 1 .. MaxTimers : Timeout(p, i)
  \/ \E p \in Peers : Render(p)
  \/ \E p \in Peers : BackToMenu(p)
  \/ LinkDrop
  \/ \E p \in Peers : ConnClosed(p)

SpecLink == LinkInit /\ [][LinkNext]_vars

\* ------------------------------------------------------------ NetworkManager
\* The connection p's cleanupOldPeer or destroy closes: this.conn.close(),
\* this.conn = null; the other end gets the close event.
ClosedBy(p) ==
  [q \in Peers |-> IF q = p THEN "destroyed"
                   ELSE IF conn[q] = "open" THEN "closing" ELSE conn[q]]

\* A call of network.initialize on p, by handleHostGame or handleJoinGame.
Initialize(p) ==
  /\ manager[p].calls < MaxCalls
  /\ manager' = [manager EXCEPT ![p] = initialize(@)]
  /\ conn' = ClosedBy(p)
  /\ UNCHANGED <<app, view, net, timers, ops, stale, late, listening, logic>>

\* The 500 ms grace period of the oldest suspended initialize of p is over.
Resume(p) ==
  /\ manager[p].waiting > 0
  /\ manager' = [manager EXCEPT ![p] = [createPeer(@) EXCEPT !.waiting = @ - 1]]
  /\ UNCHANGED <<app, view, net, timers, ops, stale, late, conn, listening, logic>>

\* The lobby with its NetworkManagers: hosting and joining again and again,
\* and leaving.
PeerNext ==
  \/ \E p \in Peers : Initialize(p)
  \/ \E p \in Peers : Resume(p)
  \/ \E p \in Peers : BackToMenu(p)

SpecPeer == LinkInit /\ [][PeerNext]_vars

\* ------------------------------------------------------------ dispatch
\* The types of the NetworkAction union.
HostTypes == {"CLICK_CELL", "RIGHT_CLICK_CELL", "RESTART"}
GuestTypes == {"START_GAME", "SYNC_BOARD", "UPDATE_LOBBY"}

\* One message of every type of NetworkAction, as the other end of the
\* connection may send it whatever its role.
Messages ==
  {[type |-> "CLICK_CELL", row |-> 0, col |-> 0],
   [type |-> "RIGHT_CLICK_CELL", row |-> 4, col |-> 4]}
  \cup {[type |-> ty, difficulty |-> d] :
          ty \in {"RESTART", "START_GAME", "UPDATE_LOBBY"},
          d \in {d \in Difficulties : d.cols = MaxCols}}
  \cup {SyncBoard(revealAllMines(createEmptyBoard(MinDim, MinDim), TRUE), "lost", 1, 1)}

\* The other end of p's connection sends data.
Inject(p, data) ==
  /\ UserOp
  /\ conn[p] = "open"
  /\ Len(net[p]) < MaxQueue
  /\ net' = [net EXCEPT ![p] = Append(@, data)]
  /\ late' = IF p = "host" THEN Append(late, FALSE) ELSE late
  /\ UNCHANGED <<app, view, timers, stale, conn, listening, manager, logic>>

\* A session in which each end may send messages of every type.
DispatchNext ==
  \/ \E p \in Peers : StartMultiplayer(p)
  \/ \E p \in Peers, pos \in ClickCells : CellClick(p, pos)
  \/ \E p \in Peers, pos \in ClickCells : RightClick(p, pos)
  \/ \E p \in Peers : Deliver(p)
  \/ \E p \in Peers, i \in 1 .. MaxTimers : Timeout(p, i)
  \/ \E p \in Peers : Render(p)
  \/ \E p \in Peers, data \in Messages : Inject(p, data)

SpecDispatch == LinkInit /\ [][DispatchNext]_vars

\* ------------------------------------------------------------ the lobby
\* handleHostGame, called by the host button of the Lobby with the render v:
\* network.onConnect keeps v's difficulty.  The NetworkManager has no Peer
\* yet, so that initialize creates one without waiting.
handleHostGame(v, s) == [s EXCEPT !.guestConnected = FALSE, !.lobby = "host"]

HostGame(p) ==
  /\ view[p].gameMode = "menu" /\ view[p].lobby = "menu"
  /\ manager[p].peer = 0
  /\ Turn(p)
  /\ UserOp
  /\ app' = [app EXCEPT ![p] = handleHostGame(view[p], @)]
  /\ view' = [view EXCEPT ![p] = handleHostGame(view[p], app[p])]
  /\ manager' = [manager EXCEPT
                   ![p] = [initialize(@) EXCEPT !.onConnect = view[p].difficulty,
                                                !.isHost = TRUE, !.code = "code"]]
  /\ UNCHANGED <<net, timers, stale, late, conn, listening, logic>>

\* The connection event of the host's Peer: setupConnection(conn), then
\* network.onConnect(), which calls setGuestConnected(true) and sends
\* UPDATE_LOBBY with the difficulty of its closure.  network.send drops the
\* message unless the DataConnection is open by then (opened).
Connection(p, opened) ==
  /\ manager[p].peer # 0
  /\ \A q \in Peers : conn[q] = "none"
  /\ Turn(p)
  /\ conn' = [q \in Peers |-> IF q = p /\ opened THEN "open" ELSE "connecting"]
  /\ net' = [net EXCEPT ![Other(p)] =
               IF opened
               THEN Append(@, [type |-> "UPDATE_LOBBY",
                               difficulty |-> manager[p].onConnect])
               ELSE @]
  /\ app' = [app EXCEPT ![p].guestConnected = TRUE]
  /\ view' = [view EXCEPT ![p] = [app[p] EXCEPT !.guestConnected = TRUE]]
  /\ UNCHANGED <<timers, ops, stale, late, listening, manager, logic>>

\* The open event of the guest's DataConnection: network.onConnect() of
\* handleJoinGame calls setWaitingForHost(true).
ConnOpen(p) ==
  /\ conn[p] = "connecting"
  /\ Turn(p)
  /\ conn' = [q \in Peers |-> "open"]
  /\ app' = [app EXCEPT ![p].waitingForHost = TRUE]
  /\ view' = [view EXCEPT ![p] = [app[p] EXCEPT !.waitingForHost = TRUE]]
  /\ UNCHANGED <<net, timers, ops, stale, late, listening, manager, logic>>

\* Both tabs show the Lobby: the host has not pressed the host button yet and
\* the guest has entered the code and joins.
LobbyInit ==
  /\ \E dh \in Difficulties, dg \in Difficulties :
       app = [p \in Peers |->
                IF p = "host" THEN AppInit(dh, FALSE, FALSE)
                ELSE [AppInit(dg, FALSE, FALSE) EXCEPT !.lobby = "join"]]
  /\ view = app
  /\ net = [p \in Peers |-> <<>>]
  /\ timers = [p \in Peers |-> <<>>]
  /\ ops = 0
  /\ stale = 0
  /\ late = <<>>
  /\ conn = [p \in Peers |-> "none"]
  /\ listening = [p \in Peers |-> TRUE]
  /\ manager = [p \in Peers |-> IF p = "host" THEN ManagerNew ELSE ManagerInit]
  /\ logic = NoCall

\* The host opens a lobby and picks difficulties, the guest connects, the
\* host starts the game.
LobbyNext ==
  \/ HostGame("host")
  \/ \E opened \in BOOLEAN : Connection("host", opened)
  \/ ConnOpen("guest")
  \/ \E newDiff \in Difficulties : LobbyDifficultyChange("host", newDiff)
  \/ StartMultiplayer("host")
  \/ \E p \in Peers, pos \in ClickCells : CellClick(p, pos)
  \/ \E p \in Peers : Deliver(p)
  \/ \E p \in Peers, i \in 1 .. MaxTimers : Timeout(p, i)
  \/ \E p \in Peers : Render(p)

SpecLobby == LobbyInit /\ [][LobbyNext]_vars

\* ------------------------------------------------------------ a game under way
\* A multiplayer game after the host's first click: the host has started the
\* game from the connected lobby and has clicked pos, the guest has handled
\* START_GAME, its initGame timeout and the SYNC_BOARD of the click, and both
\* tabs have re-rendered.  ops counts the user inputs from here on.
MidGameInit ==
  /\ \E d \in Difficulties, pos \in ClickCells :
       LET lobbyHost == AppInit(d, TRUE, FALSE)
           start == handleStartMultiplayer(lobbyHost, lobbyHost)
           idleHost == Rendered(lobbyHost, start.s)
       IN \E M \in ClickMines(idleHost, pos[1], pos[2]) :
            LET click == handleCellClick(idleHost, idleHost, pos[1], pos[2], M)
                lobbyGuest == AppInit(d, FALSE, TRUE)
                started == Rendered(lobbyGuest,
                                    onData(lobbyGuest, lobbyGuest, start.out[1], {}).s)
                idleGuest == Rendered(started,
                                      runTimer(InitTimer(50, lobbyGuest), started).s)
            IN /\ Len(click.out) = 1
               /\ app = [p \in Peers |->
                           IF p = "host" THEN Rendered(idleHost, click.s)
                           ELSE Rendered(idleGuest,
                                         onData(idleGuest, idleGuest, click.out[1], {}).s)]
  /\ view = app
  /\ net = [p \in Peers |-> <<>>]
  /\ timers = [p \in Peers |-> <<>>]
  /\ ops = 0
  /\ stale = 0
  /\ late = <<>>
  /\ conn = [p \in Peers |-> "open"]
  /\ listening = [p \in Peers |-> TRUE]
  /\ manager = [p \in Peers |-> ManagerInit]
  /\ logic = NoCall

\* The game goes on: clicks and resets of both users.
MidGameNext ==
  \/ \E p \in Peers, pos \in ClickCells : CellClick(p, pos)
  \/ \E p \in Peers : Reset(p)
  \/ \E p \in Peers : Deliver(p)
  \/ \E p \in Peers, i \in 1 .. MaxTimers : Timeout(p, i)
  \/ \E p \in Peers : Render(p)

SpecMidGame == MidGameInit /\ [][MidGameNext]_vars

\* ------------------------------------------------------------ joining
\* connectToHost on the manager m, whose connection is link: the connection
\* after the call.  Without a Peer the call logs an error and returns;
\* otherwise setupConnection(this.peer.connect(...)) stores a connection
\* that is not open yet.
connectToHost(m, link) == IF m.peer = 0 THEN link ELSE "connecting"

\* handleJoinGame: network.initialize(false) runs up to its await (the
\* synchronous part of cleanupOldPeer closes the connection and destroys the
\* Peer), network.connectToHost(code) runs on the manager as the suspended
\* call left it, and the rest of initialize runs after the handler, or after
\* the grace period.
JoinGame(p) ==
  /\ view[p].gameMode = "menu" /\ view[p].lobby = "join" /\ ~view[p].waitingForHost
  /\ manager[p].calls < MaxCalls
  /\ Turn(p)
  /\ UserOp
  /\ manager' = [manager EXCEPT
                   ![p] = [initialize(@) EXCEPT !.isHost = FALSE, !.code = "none"]]
  /\ conn' = [q \in Peers |->
               IF q = p
               THEN connectToHost(destroyPeer(manager[p]),
                                  IF conn[p] = "none" THEN "none" ELSE "destroyed")
               ELSE IF conn[q] = "open" THEN "closing" ELSE conn[q]]
  /\ app' = [app EXCEPT ![p].waitingForHost = FALSE]
  /\ view' = [view EXCEPT ![p] = [app[p] EXCEPT !.waitingForHost = FALSE]]
  /\ UNCHANGED <<net, timers, stale, late, listening, logic>>

\* The open event of p's Peer: a guest that passed a code to initialize
\* connects to the host now.
PeerOpen(p) ==
  /\ manager[p].peer # 0
  /\ ~manager[p].opened
  /\ Turn(p)
  /\ manager' = [manager EXCEPT ![p].opened = TRUE]
  /\ conn' = IF ~manager[p].isHost /\ manager[p].code # "none"
             THEN [conn EXCEPT ![p] = connectToHost(manager[p], @)]
             ELSE conn
  /\ UNCHANGED <<app, view, net, timers, ops, stale, late, listening, logic>>

\* Both tabs show the Lobby; the guest's NetworkManager is new, or has been
\* used before.
JoinInit ==
  /\ \E dh \in Difficulties, dg \in Difficulties :
       app = [p \in Peers |->
                IF p = "host" THEN AppInit(dh, FALSE, FALSE)
                ELSE [AppInit(dg, FALSE, FALSE) EXCEPT !.lobby = "join"]]
  /\ view = app
  /\ net = [p \in Peers |-> <<>>]
  /\ timers = [p \in Peers |-> <<>>]
  /\ ops = 0
  /\ stale = 0
  /\ late = <<>>
  /\ conn = [p \in Peers |-> "none"]
  /\ listening = [p \in Peers |-> TRUE]
  /\ \E m \in {ManagerNew, ManagerInit} :
       manager = [p \in Peers |-> IF p = "host" THEN ManagerNew ELSE m]
  /\ logic = NoCall

\* The host opens a lobby, the guest enters its code and joins (again and
\* again, if it likes).
JoinNext ==
  \/ HostGame("host")
  \/ JoinGame("guest")
  \/ \E p \in Peers : PeerOpen(p)
  \/ \E p \in Peers : Resume(p)

SpecJoin == JoinInit /\ [][JoinNext]_vars

\* The events of the Peers are delivered, and the grace period ends.
SpecJoinFair ==
  SpecJoin /\ WF_vars(\E p \in Peers : PeerOpen(p)) /\ WF_vars(\E p \in Peers : Resume(p))

\* ------------------------------------------------------------ mine placement
\* The two revisions of initializeBoardWithMines: the safe zone is the first
\* click and its neighbours ("expanded"), or the first click alone ("single").
Policies == {"expanded", "single"}

\* One iteration of the rejection-sampling loop with the draw (r, c): the
\* board after it.  A draw on a mine or in the safe zone places nothing.
placeMineAnywhere(policy, board, firstClickRow, firstClickCol, r, c) ==
  IF <<r, c>> \in board.mines THEN board
  ELSE [board EXCEPT !.mines = @ \cup {<<r, c>>}]

placeMine(policy, board, firstClickRow, firstClickCol, r, c) ==
  LET isFirstClick == r = firstClickRow /\ c = firstClickCol
      isNeighborOfFirstClick ==
        \E d \in DIRECTIONS : r = firstClickRow + d[1] /\ c = firstClickCol + d[2]
  IN IF <<r, c>> \in board.mines THEN board
     ELSE IF isFirstClick \/ (policy = "expanded" /\ isNeighborOfFirstClick)
     THEN board
     ELSE [board EXCEPT !.mines = @ \cup {<<r, c>>}]

\* The difficulties placement is run with: 1 <= mines <= rows * cols - 1.
PlaceDifficulties ==
  {d \in [name : {Custom}, rows : 1 .. MaxSide, cols : 1 .. MaxSide,
          mines : 1 .. MaxSide * MaxSide - 1] : d.mines <= d.rows * d.cols - 1}

\* The App is not running while a gameLogic function is run on its own.
AppIdle ==
  /\ app = [p \in Peers |->
              AppInit([name |-> Custom, rows |-> MinDim, cols |-> MinDim,
                       mines |-> MaxMines], FALSE, FALSE)]
  /\ view = app
  /\ net = [p \in Peers |-> <<>>]
  /\ timers = [p \in Peers |-> <<>>]
  /\ ops = 0
  /\ stale = 0
  /\ late = <<>>
  /\ conn = [p \in Peers |-> "none"]
  /\ listening = [p \in Peers |-> TRUE]
  /\ manager = [p \in Peers |-> ManagerNew]

AppUnchanged ==
  UNCHANGED <<app, view, net, timers, ops, stale, late, conn, listening, manager>>

\* A call of initializeBoardWithMines(initialBoard, difficulty, firstClickRow,
\* firstClickCol) with an empty board of the difficulty's size, at the top of
\* its while loop.
PlaceInit ==
  /\ AppIdle
  /\ \E policy \in Policies, d \in PlaceDifficulties :
       \E pos \in Grid(d.rows, d.cols) :
         logic = [fn |-> "initializeBoardWithMines", policy |-> policy,
                  difficulty |-> d, row |-> pos[1], col |-> pos[2],
                  board |-> createEmptyBoard(d.rows, d.cols),
                  minesPlaced |-> 0, done |-> FALSE]

Placing == logic.fn = "initializeBoardWithMines" /\ ~logic.done

\* One iteration of `while (minesPlaced < mines)`: Math.random() draws (r, c).
Draw(r, c) ==
  /\ Placing
  /\ logic.minesPlaced < logic.difficulty.mines
  /\ r \in 0 .. logic.difficulty.rows - 1
  /\ c \in 0 .. logic.difficulty.cols - 1
  /\ LET board == placeMine(logic.policy, logic.board, logic.row, logic.col, r, c)
     IN logic' = [logic EXCEPT
                    !.board = board,
                    !.minesPlaced = IF board # logic.board THEN @ + 1 ELSE @]
  /\ AppUnchanged

\* The loop is left; the neighbour numbers are computed and the board is
\* returned.
PlaceReturn ==
  /\ Placing
  /\ ~(logic.minesPlaced < logic.difficulty.mines)
  /\ logic' = [logic EXCEPT
                 !.board = initializeBoardWithMines(
                             createEmptyBoard(logic.difficulty.rows,
                                              logic.difficulty.cols),
                             logic.difficulty, logic.board.mines),
                 !.done = TRUE]
  /\ AppUnchanged

PlaceNext ==
  \/ \E r \in 0 .. MaxSide - 1, c \in 0 .. MaxSide - 1 : Draw(r, c)
  \/ PlaceReturn

SpecPlace == PlaceInit /\ [][PlaceNext]_vars

\* Math.random() is fair: a draw that places a mine is not avoided for ever
\* while there is one, and the code after the loop runs.
SpecPlaceFair ==
  /\ SpecPlace
  /\ WF_vars(\E r \in 0 .. MaxSide - 1, c \in 0 .. MaxSide - 1 : Draw(r, c))
  /\ WF_vars(PlaceReturn)

\* ------------------------------------------------------------ board functions
\* The boards revealCell, toggleFlag, checkWin and revealAllMines are run
\* on: an empty board of up to MaxSide x MaxSide cells on which
\* initializeBoardWithMines has placed the mines M (none for the board of an
\* idle game).  The App calls checkWin with its current difficulty, whose
\* mines may differ from the number of mines on the board
\* (handleUpdateCustomSettings during a game).
BoardInit ==
  /\ AppIdle
  /\ \E rows \in 1 .. MaxSide, cols \in 1 .. MaxSide :
       \E M \in SUBSET Grid(rows, cols) :
         /\ M # Grid(rows, cols)
         /\ LET d == [name |-> Custom, rows |-> rows, cols |-> cols,
                      mines |-> Cardinality(M)]
                board == initializeBoardWithMines(createEmptyBoard(rows, cols), d, M)
            IN logic = [fn |-> "initializeBoardWithMines", difficulty |-> d,
                        arg |-> board, row |-> 0, col |-> 0, won |-> FALSE,
                        board |-> board, exploded |-> FALSE, win |-> FALSE,
                        visits |-> <<>>, calls |-> 0]

\* The next call gets the board the last one returned.  visits are the cells
\* the flood fill of the last revealCell set to revealed, in order.
Calling ==
  /\ logic.fn \in {"initializeBoardWithMines", "revealCell", "toggleFlag",
                   "checkWin", "revealAllMines"}
  /\ logic.calls < MaxLogicCalls

RevealCall(row, col) ==
  /\ Calling
  /\ InBoard(logic.board, <<row, col>>)
  /\ logic' = [logic EXCEPT
                 !.fn = "revealCell", !.arg = logic.board,
                 !.row = row, !.col = col,
                 !.board = revealCell(logic.board, row, col).board,
                 !.exploded = revealCell(logic.board, row, col).exploded,
                 !.visits = IF StatusOf(logic.board, <<row, col>>) = "hidden"
                               /\ <<row, col>> \notin logic.board.mines
                            THEN floodQueue(logic.board, <<(<<row, col>>)>>, <<>>)
                            ELSE <<>>,
                 !.calls = @ + 1]
  /\ AppUnchanged

FlagCall(row, col) ==
  /\ Calling
  /\ InBoard(logic.board, <<row, col>>)
  /\ logic' = [logic EXCEPT
                 !.fn = "toggleFlag", !.arg = logic.board,
                 !.row = row, !.col = col,
                 !.board = toggleFlag(logic.board, row, col),
                 !.calls = @ + 1]
  /\ AppUnchanged

CheckWinCall(mines) ==
  /\ Calling
  /\ mines <= logic.board.rows * logic.board.cols - 1
  /\ logic' = [logic EXCEPT
                 !.fn = "checkWin", !.arg = logic.board,
                 !.difficulty = [@ EXCEPT !.mines = mines],
                 !.win = checkWin(logic.board, [logic.difficulty EXCEPT !.mines = mines]),
                 !.calls = @ + 1]
  /\ AppUnchanged

RevealAllCall(won) ==
  /\ Calling
  /\ logic' = [logic EXCEPT
                 !.fn = "revealAllMines", !.arg = logic.board, !.won = won,
                 !.board = revealAllMines(logic.board, won),
                 !.calls = @ + 1]
  /\ AppUnchanged

BoardNext ==
  \/ \E row \in 0 .. MaxSide - 1, col \in 0 .. MaxSide - 1 : RevealCall(row, col)
  \/ \E row \in 0 .. MaxSide - 1, col \in 0 .. MaxSide - 1 : FlagCall(row, col)
  \/ \E mines \in 1 .. MaxSide * MaxSide - 1 : CheckWinCall(mines)
  \/ \E won \in BOOLEAN : RevealAllCall(won)

SpecBoard == BoardInit /\ [][BoardNext]_vars

\* ------------------------------------------------------------ properties
\* The multiplayer game is on: the host plays as multi_host, the guest as
\* multi_guest.
InMultiplayer ==
  app["host"].gameMode = "multi_host" /\ app["guest"].gameMode = "multi_guest"

\* Every message sent has been delivered, no setTimeout callback is pending
\* and React has re-rendered, on both peers.
Quiescent ==
  \A p \in Peers : net[p] = <<>> /\ timers[p] = <<>> /\ view[p] = app[p]

\* The messages the host hands to network.send in the step.
Sent ==
  IF Len(net'["guest"]) > Len(net["guest"])
  THEN SubSeq(net'["guest"], Len(net["guest"]) + 1, Len(net'["guest"]))
  ELSE <<>>

SyncsSent == {i \in 1 .. Len(Sent) : Sent[i].type = "SYNC_BOARD"}

\* C1: in a multiplayer game, whenever every message sent has been delivered
\* and no delayed callback is pending on either peer, the guest's board,
\* status and flag count equal the host's.
C1_GuestMirrorsHost ==
  (InMultiplayer /\ Quiescent) =>
    /\ app["guest"].board = app["host"].board
    /\ app["guest"].gameStatus = app["host"].gameStatus
    /\ app["guest"].flagsCount = app["host"].flagsCount

\* C2: every SYNC_BOARD the host sends carries the host's board, status and
\* flag count as they are at the moment of sending (the delayed empty-board
\* snapshots after a reset and after a RESTART included), so that no
\* SYNC_BOARD sent later describes an earlier host state.
C2_SnapshotIsCurrent ==
  [][\A i \in SyncsSent :
       /\ Sent[i].board = app'["host"].board
       /\ Sent[i].status = app'["host"].gameStatus
       /\ Sent[i].flags = app'["host"].flagsCount]_vars

\* The host's board, status or flag count changes in the step.
HostChanged ==
  \/ app'["host"].board # app["host"].board
  \/ app'["host"].gameStatus # app["host"].gameStatus
  \/ app'["host"].flagsCount # app["host"].flagsCount

\* The host runs its i-th pending setTimeout callback in the step.
HostTimeout(i) ==
  /\ Due("host", i)
  /\ timers'["host"] = RemoveAt(timers["host"], i)

\* C3: the host in multi_host mode sends exactly one SYNC_BOARD for every
\* action that changes its board, status or flag count: in the step of the
\* change, or, for a reset, a game start and a RESTART, from the delayed
\* callback the action leaves pending, which sends exactly one.
C3_OneSyncPerAction ==
  [][/\ (app'["host"].gameMode = "multi_host" /\ HostChanged) =>
          \/ Cardinality(SyncsSent) = 1
          \/ \E i \in 1 .. Len(timers'["host"]) : timers'["host"][i].kind = "sync"
     /\ \A i \in 1 .. Len(timers["host"]) :
          (HostTimeout(i) /\ timers["host"][i].kind = "sync") =>
            Cardinality(SyncsSent) = 1]_vars

\* The transport hands the host the oldest message in flight in the step.
HostDelivers ==
  /\ net["host"] # <<>>
  /\ net'["host"] = Tail(net["host"])

\* The host, playing, is handed a CLICK_CELL whose target is a hidden mine.
ClickOnHiddenMine ==
  /\ HostDelivers
  /\ Head(net["host"]).type = "CLICK_CELL"
  /\ app["host"].gameMode = "multi_host"
  /\ app["host"].gameStatus = "playing"
  /\ <<Head(net["host"]).row, Head(net["host"]).col>> \in app["host"].board.mines
  /\ StatusOf(app["host"].board, <<Head(net["host"]).row, Head(net["host"]).col>>)
       = "hidden"

\* C4: when the host, with status playing, processes a guest CLICK_CELL whose
\* target is a hidden mine, its status becomes lost, every mine that is not
\* flagged is revealed, exploded is true at the clicked cell and nowhere else,
\* and exactly one SYNC_BOARD, with status lost, is sent.
C4_GuestClickOnMineLoses ==
  [][ClickOnHiddenMine =>
       /\ app'["host"].gameStatus = "lost"
       /\ app'["host"].board.mines \ app'["host"].board.flagged
            \subseteq app'["host"].board.revealed
       /\ app'["host"].board.exploded =
            {<<Head(net["host"]).row, Head(net["host"]).col>>}
       /\ Cardinality(SyncsSent) = 1
       /\ \A i \in SyncsSent : Sent[i].status = "lost"]_vars

\* The host runs the delayed broadcast of a RESTART: the 100 ms callback
\* registered by the onData of a multi_host render.
RestartSync(i) ==
  /\ HostTimeout(i)
  /\ timers["host"][i].kind = "sync"
  /\ timers["host"][i].delay = 100
  /\ timers["host"][i].gameMode = "multi_host"

\* C5: when the host has processed RESTART{difficulty}, its session is idle
\* with elapsed time 0, flag count 0 and an all-hidden, mine-free board of the
\* clamped rows and cols of the message's difficulty, and the SYNC_BOARD it
\* then sends carries a board equal to the host's own board.
C5_RestartReinitialises ==
  [][\A i \in 1 .. Len(timers["host"]) :
       RestartSync(i) =>
         /\ app'["host"].gameStatus = "idle"
         /\ app'["host"].timeElapsed = 0
         /\ app'["host"].flagsCount = 0
         /\ app'["host"].board =
              createEmptyBoard(timers["host"][i].rows, timers["host"][i].cols)
         /\ Cardinality(SyncsSent) = 1
         /\ \A k \in SyncsSent : Sent[k].board = app'["host"].board]_vars

\* The transport hands the guest a START_GAME in the step.
GuestDeliversStart ==
  /\ net["guest"] # <<>>
  /\ net'["guest"] = Tail(net["guest"])
  /\ Head(net["guest"]).type = "START_GAME"

\* The guest runs its pending setTimeout callback (the initGame registered on
\* START_GAME) in the step.
GuestTimeout ==
  /\ timers["guest"] # <<>>
  /\ timers'["guest"] = Tail(timers["guest"])

\* C6: a guest that receives START_GAME{difficulty} ends up in multi_guest
\* mode with its difficulty equal to the payload and with an idle, all-hidden
\* board whose dimensions are the rows and cols of that difficulty.
C6_StartGameInitialisesGuest ==
  [][/\ GuestDeliversStart =>
          /\ app'["guest"].gameMode = "multi_guest"
          /\ app'["guest"].difficulty = Head(net["guest"]).difficulty
     /\ GuestTimeout =>
          /\ app'["guest"].gameMode = "multi_guest"
          /\ app'["guest"].gameStatus = "idle"
          /\ app'["guest"].board =
               createEmptyBoard(app'["guest"].difficulty.rows,
                                app'["guest"].difficulty.cols)]_vars

\* C7: in every reachable session state the flag count equals the number of
\* cells of the board whose status is flagged.
C7_FlagsCountIsFlaggedCells ==
  \A p \in Peers :
    app[p].gameMode # "menu" =>
      app[p].flagsCount = Cardinality(app[p].board.flagged)

\* A reveal, a flag toggle or an undo runs on the host in the step: its own,
\* or one forwarded by the guest.
HostRevealFlagUndo ==
  \/ \E pos \in ClickCells : CellClick("host", pos) \/ RightClick("host", pos)
  \/ UndoFlag("host")
  \/ /\ HostDelivers
     /\ Head(net["host"]).type \in {"CLICK_CELL", "RIGHT_CLICK_CELL"}

\* C8: once the host's status is won or lost, no reveal, flag toggle or undo,
\* local or forwarded by the guest, changes the board, the status, the flag
\* count or the flag history, and none sends a SYNC_BOARD; the status leaves
\* won/lost only to idle.
C8_TerminalUntilReset ==
  [][app["host"].gameStatus \in {"won", "lost"} =>
       /\ app'["host"].gameStatus \in {app["host"].gameStatus, "idle"}
       /\ HostRevealFlagUndo =>
            /\ app'["host"].board = app["host"].board
            /\ app'["host"].gameStatus = app["host"].gameStatus
            /\ app'["host"].flagsCount = app["host"].flagsCount
            /\ app'["host"].flagHistory = app["host"].flagHistory
            /\ SyncsSent = {}]_vars

\* C9: a CLICK_CELL or RIGHT_CLICK_CELL the guest sent before the host
\* re-initialised its session and the host receives after it changes nothing
\* of the host's new session (board, status, flag count).
C9_LateIntentRejected ==
  [][(/\ HostDelivers
      /\ Head(net["host"]).type \in {"CLICK_CELL", "RIGHT_CLICK_CELL"}
      /\ Head(late)) =>
       /\ app'["host"].board = app["host"].board
       /\ app'["host"].gameStatus = app["host"].gameStatus
       /\ app'["host"].flagsCount = app["host"].flagsCount]_vars

\* The host's board has no mine while idle and difficulty.mines mines once
\* the game is playing, won or lost.
HostMinesPlaced ==
  app["host"].gameMode = "multi_host" =>
    Cardinality(app["host"].board.mines) =
      IF app["host"].gameStatus = "idle" THEN 0 ELSE app["host"].difficulty.mines

\* A reveal runs on the host in the step: its own, or one forwarded by the
\* guest.
HostReveal ==
  \/ \E pos \in ClickCells : CellClick("host", pos)
  \/ HostDelivers /\ Head(net["host"]).type = "CLICK_CELL"

\* C10: the host's status changes from idle to playing only through a reveal,
\* which places the mines: the host's board contains no mine in every idle
\* state and exactly difficulty.mines mines in every playing, won or lost
\* state.
C10_MinesPlacedByFirstReveal ==
  [][/\ (app["host"].gameStatus = "idle" /\ app'["host"].gameStatus = "playing")
          => HostReveal
     /\ HostMinesPlaced']_vars

\* A reveal of pos runs on the host in the step: its own click, or a
\* CLICK_CELL forwarded by the guest.
HostRevealAt(pos) ==
  \/ CellClick("host", pos)
  \/ /\ HostDelivers
     /\ Head(net["host"]).type = "CLICK_CELL"
     /\ <<Head(net["host"]).row, Head(net["host"]).col>> = pos

\* Every cell of the board that is not a mine is revealed.
AllSafeRevealed(board) ==
  Grid(board.rows, board.cols) \ board.mines \subseteq board.revealed

\* C11: a reveal applied in status idle or playing (to a cell that is not
\* flagged) sets the status to lost iff the target is a hidden mine; otherwise
\* to won iff every non-mine cell is revealed after the flood fill; otherwise
\* the status is playing.  The first reveal of a game never yields lost.
C11_RevealOutcome ==
  [][\A pos \in ClickCells :
       (/\ HostRevealAt(pos)
        /\ app["host"].gameMode = "multi_host"
        /\ app["host"].gameStatus \in {"idle", "playing"}
        /\ StatusOf(app["host"].board, pos) # "flagged") =>
         /\ app'["host"].gameStatus = "lost" <=>
              (pos \in app["host"].board.mines
               /\ StatusOf(app["host"].board, pos) = "hidden")
         /\ app'["host"].gameStatus # "lost" =>
              (app'["host"].gameStatus = "won" <=>
                 AllSafeRevealed(app'["host"].board))
         /\ app'["host"].gameStatus \in {"lost", "won", "playing"}
         /\ app["host"].gameStatus = "idle" =>
              app'["host"].gameStatus # "lost"]_vars

\* A local input of the guest's user: a click, a right click, an undo or a
\* reset on the guest's game screen.
GuestLocal ==
  \/ \E pos \in ClickCells : CellClick("guest", pos) \/ RightClick("guest", pos)
  \/ UndoFlag("guest")
  \/ Reset("guest")

\* The guest applies a SYNC_BOARD snapshot in the step.
GuestAppliesSync ==
  /\ Deliver("guest")
  /\ Head(net["guest"]).type = "SYNC_BOARD"

\* The game state a peer shows: board, status, elapsed time and flag count.
GameOf(s) == <<s.board, s.gameStatus, s.timeElapsed, s.flagsCount>>

\* C19: a local click, right click, undo or reset on the guest leaves the
\* guest's board, status, elapsed time and flag count unchanged and sends at
\* most one intent to the host; the guest's board changes only when it applies
\* a SYNC_BOARD snapshot or re-initialises after START_GAME.
C19_GuestLocalFrame ==
  [][/\ GuestLocal =>
          /\ GameOf(app'["guest"]) = GameOf(app["guest"])
          /\ Len(net'["host"]) <= Len(net["host"]) + 1
          /\ net'["guest"] = net["guest"]
          /\ timers' = timers
     /\ app'["guest"].board # app["guest"].board =>
          \/ GuestAppliesSync
          \/ \E i \in 1 .. Len(timers["guest"]) :
               Timeout("guest", i) /\ timers["guest"][i].kind = "initGame"]_vars

\* The guest shows a board the host has revealed cells of, and an intent of
\* the guest is on its way to the host.
C19_GuestIntentInFlight ==
  /\ app["guest"].gameMode = "multi_guest"
  /\ view["guest"] = app["guest"]
  /\ app["guest"].board # NoBoard
  /\ app["guest"].board.revealed # {}
  /\ \E i \in 1 .. Len(net["host"]) :
       net["host"][i].type \in {"CLICK_CELL", "RIGHT_CLICK_CELL", "RESTART"}

\* The SYNC_BOARD branch of the guest calls playExplosion or playWin for the
\* snapshot data.
PlaysTerminalSound(data) ==
  data.type = "SYNC_BOARD" /\ data.status \in {"lost", "won"}

\* The host's game ends in the step: its status changes into won or lost.
HostGameEnds ==
  /\ app'["host"].gameStatus \in {"won", "lost"}
  /\ app'["host"].gameStatus # app["host"].gameStatus

\* C20: the guest plays the win or explosion sound exactly once per transition
\* of the host into won or lost: the host's transition sends exactly one
\* snapshot with the terminal status, and the guest plays a sound only for a
\* snapshot that changes its own status into won or lost.
C20_TerminalSoundOncePerTransition ==
  [][/\ (GuestAppliesSync /\ PlaysTerminalSound(Head(net["guest"]))) =>
          app["guest"].gameStatus # Head(net["guest"]).status
     /\ HostGameEnds =>
          /\ Len(net'["guest"]) = Len(net["guest"]) + 1
          /\ net'["guest"][Len(net'["guest"])].type = "SYNC_BOARD"
          /\ net'["guest"][Len(net'["guest"])].status = app'["host"].gameStatus]_vars

\* C12: the elapsed time is incremented only while the status is playing: no
\* tick of the timer changes the elapsed time of a game that is idle, won or
\* lost, so no tick set up before a reset or before the game left playing is
\* applied afterwards.
C12_TicksOnlyWhilePlaying ==
  [][\A p \in Peers : Tick(p) => app[p].gameStatus = "playing"]_vars

\* C13: on each peer the elapsed time never decreases between two states of
\* the same game in which the status is playing, whether the step is a tick
\* of the timer or the application of a SYNC_BOARD snapshot.
C13_TimeMonotoneWhilePlaying ==
  [][\A p \in Peers :
       (app[p].gameStatus = "playing" /\ app'[p].gameStatus = "playing") =>
         app'[p].timeElapsed >= app[p].timeElapsed]_vars

\* A multiplayer game is active on p.
GameActive(p) == app[p].gameMode \in {"multi_host", "multi_guest"}

\* C14: if the transport signals an error or a close while a multiplayer game
\* is active, the peer that observes it leaves the game for the menu and
\* destroys its connection, so that after a drop of the link both peers end
\* in the menu.
C14_CloseLeavesGame ==
  [][\A p \in Peers :
       (ConnClosed(p) /\ GameActive(p)) =>
         /\ app'[p].gameMode = "menu"
         /\ conn'[p] = "destroyed"]_vars

\* p has returned to the menu and torn its connection down, by
\* handleBackToMenu or by onError.
TornDown(p) == app[p].gameMode = "menu" /\ conn[p] = "destroyed"

\* What C15 says a late message must leave alone.
SessionOf(s) ==
  <<s.board, s.gameStatus, s.timeElapsed, s.flagsCount, s.difficulty, s.gameMode>>

\* C15: after a peer has returned to the menu, by handleBackToMenu or after an
\* error, a message of any type that arrives afterwards is ignored: it changes
\* neither board, status, elapsed time, flag count, difficulty nor game mode,
\* and causes no message to be sent and no callback to be scheduled.
C15_LateMessageIgnored ==
  [][\A p \in Peers :
       (Deliver(p) /\ TornDown(p)) =>
         /\ SessionOf(app'[p]) = SessionOf(app[p])
         /\ net'[Other(p)] = net[Other(p)]
         /\ timers' = timers]_vars

\* A peer that left a game with revealed cells for the menu has its handlers
\* registered again and a message of the old session in its inbox.
C15_MessageAfterTeardown ==
  \E p \in Peers :
    /\ TornDown(p)
    /\ view[p] = app[p]
    /\ listening[p]
    /\ app[p].board # NoBoard
    /\ app[p].board.revealed # {}
    /\ net[p] # <<>>

\* C16: leaving a multiplayer session for the menu closes the connection and
\* discards every pending callback: no delayed initGame and no delayed
\* snapshot that was scheduled before the teardown has an effect after it,
\* neither on the state of the peer nor on the network.
C16_TeardownDiscardsCallbacks ==
  [][\A p \in Peers :
       /\ BackToMenu(p) => conn'[p] = "destroyed"
       /\ \A i \in 1 .. Len(timers[p]) :
            (Timeout(p, i) /\ TornDown(p)) =>
              /\ SessionOf(app'[p]) = SessionOf(app[p])
              /\ net' = net]_vars

\* C17: re-initialising the connection first tears down the previous one: in
\* every interleaving of initialize calls at most one live Peer exists at any
\* moment, and every Peer that initialize created is the manager's current
\* peer or destroyed.
C17_OneLivePeer ==
  \A p \in Peers :
    /\ Cardinality(manager[p].live) <= 1
    /\ manager[p].live \subseteq {manager[p].peer}

\* The message p is handed in the step does not change p's useState values,
\* sends nothing and schedules nothing.
NoReaction(p) ==
  /\ [app'[p] EXCEPT !.lobby = app[p].lobby] = app[p]
  /\ net'[Other(p)] = net[Other(p)]
  /\ timers' = timers

\* C18: messages are dispatched by role: a peer in multi_host mode acts only
\* on CLICK_CELL, RIGHT_CLICK_CELL and RESTART and never changes its state on
\* SYNC_BOARD, START_GAME or UPDATE_LOBBY; a peer in guest mode acts only on
\* START_GAME, SYNC_BOARD and UPDATE_LOBBY; a guest never sends a SYNC_BOARD.
C18_DispatchByRole ==
  [][\A p \in Peers :
       /\ (Deliver(p) /\ app[p].gameMode = "multi_host"
             /\ Head(net[p]).type \in GuestTypes) => NoReaction(p)
       /\ (Deliver(p) /\ app[p].gameMode = "multi_guest"
             /\ Head(net[p]).type \in HostTypes) => NoReaction(p)
       /\ (app[p].gameMode = "multi_guest"
             /\ ~(\E data \in Messages : Inject(Other(p), data))) =>
            \A i \in Len(net[Other(p)]) + 1 .. Len(net'[Other(p)]) :
              net'[Other(p)][i].type # "SYNC_BOARD"]_vars

\* The host, in a game with revealed cells, is about to be handed a snapshot,
\* and the guest, showing that game, a CLICK_CELL.
C18_WrongRoleMessages ==
  /\ app["host"].gameMode = "multi_host"
  /\ view["host"] = app["host"]
  /\ app["host"].board # NoBoard
  /\ app["host"].board.revealed # {}
  /\ net["host"] # <<>>
  /\ Head(net["host"]).type = "SYNC_BOARD"
  /\ app["guest"].gameMode = "multi_guest"
  /\ view["guest"] = app["guest"]
  /\ app["guest"].board # NoBoard
  /\ net["guest"] # <<>>
  /\ Head(net["guest"]).type = "CLICK_CELL"

\* C21: while both tabs are in the lobby with the guest connected and the
\* game not started, once no UPDATE_LOBBY is in flight (and both tabs are
\* rendered) the guest's difficulty is the host's selected difficulty.
InLobby ==
  /\ \A p \in Peers : app[p].gameMode = "menu" /\ view[p] = app[p]
                      /\ conn[p] = "open"
  /\ app["host"].guestConnected
  /\ app["guest"].waitingForHost
  /\ \A i \in 1 .. Len(net["guest"]) : net["guest"][i].type # "UPDATE_LOBBY"

C21_GuestMirrorsHost ==
  InLobby => app["guest"].difficulty = app["host"].difficulty

\* The board initializeBoardWithMines has returned.
Placed == logic.fn = "initializeBoardWithMines" /\ logic.done

C23_PlacementTerminates == <>(logic.fn = "initializeBoardWithMines" /\ logic.done)

\* The mines among the in-bounds Moore neighbours of pos.
MinesAround(board, pos) ==
  Cardinality(Neighbours(pos) \cap Grid(board.rows, board.cols) \cap board.mines)

\* C24 as stated: after mine placement neighborMines of every cell of the
\* board, mine or not, is the number of mines among its in-bounds neighbours.
C24_AllCellsCounted ==
  Placed =>
    \A pos \in Grid(logic.board.rows, logic.board.cols) :
      logic.board.neighborMines[pos] = MinesAround(logic.board, pos)

\* C24 (amended): after mine placement neighborMines of every cell that is
\* not a mine is the number of mines among its in-bounds neighbours (a mine
\* cell keeps 0).
C24_NeighborCounts ==
  Placed =>
    \A pos \in Grid(logic.board.rows, logic.board.cols) :
      logic.board.neighborMines[pos] =
        IF pos \in logic.board.mines THEN 0 ELSE MinesAround(logic.board, pos)

\* A board has been returned on which a cell that is not a mine has mines
\* both beside it and diagonally, and a mine has a mine as a neighbour.
C24_CountedBoard ==
  /\ Placed
  /\ \E pos \in Grid(logic.board.rows, logic.board.cols) \ logic.board.mines :
       /\ \E n \in Neighbours(pos) \cap logic.board.mines :
            n[1] # pos[1] /\ n[2] # pos[2]
       /\ \E n \in Neighbours(pos) \cap logic.board.mines : n[1] = pos[1]
       /\ logic.board.neighborMines[pos] >= 2
  /\ \E pos \in logic.board.mines : Neighbours(pos) \cap logic.board.mines # {}

\* The cells of the board that are not mines, and those of them that are
\* revealed.
SafeCells(board) == Grid(board.rows, board.cols) \ board.mines
RevealedSafe(board) == board.revealed \ board.mines

\* C25: checkWin(board, difficulty) returns true iff the number of revealed
\* cells that are not mines is rows * cols - mines; it returns false for
\* every board with an unrevealed cell that is not a mine; the flags do not
\* change its result.
C25_CheckWinExact ==
  logic.fn = "checkWin" =>
    /\ logic.win <=>
         Cardinality(RevealedSafe(logic.arg))
           = logic.difficulty.rows * logic.difficulty.cols - logic.difficulty.mines
    /\ SafeCells(logic.arg) # RevealedSafe(logic.arg) => ~logic.win
    /\ \A F \in SUBSET HiddenOf(logic.arg) :
         checkWin([logic.arg EXCEPT !.flagged = F], logic.difficulty) = logic.win

\* revealCell has run its flood fill from the hidden cell (row, col), which
\* is not a mine.
Flooded ==
  /\ logic.fn = "revealCell"
  /\ StatusOf(logic.arg, <<logic.row, logic.col>>) = "hidden"
  /\ <<logic.row, logic.col>> \notin logic.arg.mines

Visited == {logic.visits[i] : i \in 1 .. Len(logic.visits)}

\* The flood fill reveals each cell at most once, the cells it reveals are
\* those of the returned board, a cell other than the clicked one is
\* revealed only as the neighbour of a revealed "0" cell, and every hidden
\* in-bounds neighbour of a revealed "0" cell is revealed.
FloodExact ==
  /\ \A i, j \in 1 .. Len(logic.visits) : logic.visits[i] = logic.visits[j] => i = j
  /\ Visited \subseteq HiddenOf(logic.arg)
  /\ logic.board = [logic.arg EXCEPT !.revealed = @ \cup Visited]
  /\ <<logic.row, logic.col>> \in Visited
  /\ \A pos \in Visited \ {<<logic.row, logic.col>>} :
       \E z \in Visited \cap Neighbours(pos) : logic.arg.neighborMines[z] = 0
  /\ \A z \in Visited :
       logic.arg.neighborMines[z] = 0 =>
         Neighbours(z) \cap HiddenOf(logic.arg) \subseteq Visited

C27_RevealAllMinesExact ==
  logic.fn = "revealAllMines" =>
    /\ logic.won =>
         \A pos \in logic.arg.mines : StatusOf(logic.board, pos) = "flagged"
    /\ ~logic.won =>
         \A pos \in logic.arg.mines :
           StatusOf(logic.board, pos) =
             IF StatusOf(logic.arg, pos) = "flagged" THEN "flagged" ELSE "revealed"
    /\ \A pos \in SafeCells(logic.arg) :
         StatusOf(logic.board, pos) = StatusOf(logic.arg, pos)
    /\ logic.board.exploded = logic.arg.exploded
    /\ logic.board.mines = logic.arg.mines
    /\ logic.board.neighborMines = logic.arg.neighborMines

\* revealAllMines has disclosed a lost board with a flagged mine and a hidden
\* one.
C27_LossWithFlaggedMine ==
  /\ logic.fn = "revealAllMines"
  /\ ~logic.won
  /\ \E pos \in logic.arg.mines : StatusOf(logic.arg, pos) = "flagged"
  /\ \E pos \in logic.arg.mines : StatusOf(logic.arg, pos) = "hidden"

\* C30: revealCell on a cell whose status is revealed or flagged returns a
\* board equal to its input with exploded = false, so that a second call
\* returns the same board again.
C30_RevealIdempotent ==
  (logic.fn = "revealCell" /\ StatusOf(logic.arg, <<logic.row, logic.col>>) # "hidden")
    => /\ logic.board = logic.arg
       /\ ~logic.exploded
       /\ logic.visits = <<>>
       /\ revealCell(logic.board, logic.row, logic.col)
            = [board |-> logic.arg, exploded |-> FALSE]

\* revealCell has been called on a cell that an earlier revealCell had
\* revealed.
C30_RevealedAgain ==
  /\ logic.fn = "revealCell"
  /\ StatusOf(logic.arg, <<logic.row, logic.col>>) = "revealed"
  /\ logic.calls = 2

\* C28: in every reachable state of a game at most one cell of a tab's board
\* is exploded, that cell is a revealed mine and the tab's status is lost;
\* the other mines the disclosure revealed are not exploded.
C28_OneExplodedCell ==
  \A p \in Peers :
    /\ Cardinality(app[p].board.exploded) <= 1
    /\ app[p].board.exploded \subseteq app[p].board.mines \cap app[p].board.revealed
    /\ app[p].board.exploded # {} => app[p].gameStatus = "lost"

\* The host has lost on a mine, the disclosure has revealed another mine,
\* and the guest has applied the snapshot.
C28_LostWithDisclosure ==
  /\ app["host"].gameStatus = "lost"
  /\ Cardinality(app["host"].board.exploded) = 1
  /\ (app["host"].board.mines \cap app["host"].board.revealed)
       \ app["host"].board.exploded # {}
  /\ app["guest"].board = app["host"].board
  /\ app["guest"].gameStatus = "lost"

\* The cell of the most recent entry of the host's flag history.
LastFlagged == app["host"].flagHistory[Len(app["host"].flagHistory)]

\* The status a flag toggle gives a cell.
Toggled(status) == IF status = "flagged" THEN "hidden" ELSE "flagged"

\* C29: an undo on the host, when the status is not terminal and the flag
\* history is not empty, toggles the flag of the cell of the most recent
\* history entry, moves the flag count by one accordingly and removes
\* exactly that entry (so that flagging a hidden cell and undoing restores the
\* cell, the flag count and the history); with an empty history or a terminal
\* status it changes nothing.
C29_UndoTogglesLast ==
  [][UndoFlag("host") =>
       IF app["host"].gameStatus \notin {"won", "lost"}
          /\ Len(app["host"].flagHistory) > 0
       THEN /\ StatusOf(app'["host"].board, LastFlagged)
                 = Toggled(StatusOf(app["host"].board, LastFlagged))
            /\ app'["host"].flagsCount
                 = app["host"].flagsCount
                   + (IF StatusOf(app["host"].board, LastFlagged) = "flagged"
                      THEN -1 ELSE 1)
            /\ app'["host"].flagHistory
                 = SubSeq(app["host"].flagHistory, 1,
                          Len(app["host"].flagHistory) - 1)
       ELSE NoReaction("host")]_vars

\* C31: a single toggleFlag changes the status of its target cell only; on a
\* revealed cell it changes nothing; applied twice to the same hidden cell it
\* returns the board it started from.
C31_ToggleFlagInvolution ==
  logic.fn = "toggleFlag" =>
    LET pos == <<logic.row, logic.col>>
        before == StatusOf(logic.arg, pos)
    IN /\ \A q \in Grid(logic.arg.rows, logic.arg.cols) \ {pos} :
            StatusOf(logic.board, q) = StatusOf(logic.arg, q)
       /\ logic.board.mines = logic.arg.mines
       /\ logic.board.exploded = logic.arg.exploded
       /\ logic.board.neighborMines = logic.arg.neighborMines
       /\ before = "revealed" => logic.board = logic.arg
       /\ before = "hidden" =>
            /\ StatusOf(logic.board, pos) = "flagged"
            /\ toggleFlag(logic.board, logic.row, logic.col) = logic.arg
       /\ before = "flagged" => StatusOf(logic.board, pos) = "hidden"

\* toggleFlag has been applied a second time to a cell, which is hidden
\* again.
C31_ToggledTwice ==
  /\ logic.fn = "toggleFlag"
  /\ logic.calls = 2
  /\ StatusOf(logic.arg, <<logic.row, logic.col>>) = "flagged"
  /\ StatusOf(logic.board, <<logic.row, logic.col>>) = "hidden"

\* C32: while the host's game is in progress (idle or playing) a cell that is
\* flagged on its board is not revealed by the next step, whatever it is (a
\* local click, a guest CLICK_CELL, a flood fill): a flagged cell is revealed
\* only after it has been unflagged.
C32_FlaggedNeverRevealed ==
  [][app["host"].gameStatus \in {"idle", "playing"}
       => app["host"].board.flagged \cap app'["host"].board.revealed = {}]_vars

\* ------------------------------------------------------ custom settings
\* The numbers a user can put into the three inputs of the Custom difficulty
\* (parseInt of the input's text; the min and max attributes of the inputs do
\* not restrict what is typed): below, at and above every limit the handler
\* compares with.
SettingValues ==
  {-1, 0, 1, MinDim - 1, MinDim, MaxCols, MinDim * MinDim - 1, MinDim * MinDim,
   MaxDim, MaxDim + 1, MaxDim * MaxDim}

SettingKeys == {"rows", "cols", "mines"}

\* The host's user edits one input of the Custom difficulty during a game.
CustomSettings(p, key, value) ==
  /\ InGame(p)
  /\ ops' = ops
  /\ Step(p,
          handleUpdateCustomSettings(view[p], app[p], key, value), net[p], timers[p], TRUE)

\* A multiplayer game in which the host keeps editing the Custom difficulty.
SettingsNext ==
  \/ StartMultiplayer("host")
  \/ \E key \in SettingKeys, value \in SettingValues : CustomSettings("host", key, value)
  \/ \E p \in Peers : Deliver(p)
  \/ \E p \in Peers, i \in 1 .. MaxTimers : Timeout(p, i)
  \/ \E p \in Peers : Render(p)

SpecSettings == Init /\ [][SettingsNext]_vars

\* C33: after any sequence of handleUpdateCustomSettings calls on the Custom
\* difficulty, with any integers for rows, cols and mines, the difficulty has
\* 1 <= mines <= rows * cols - 1 and rows and cols within MinDim .. MaxDim.
C33_CustomSettingsInRange ==
  \A p \in Peers :
    LET d == app[p].difficulty
    IN d.name = Custom =>
         /\ d.rows \in MinDim .. MaxDim
         /\ d.cols \in MinDim .. MaxDim
         /\ 1 <= d.mines
         /\ d.mines <= d.rows * d.cols - 1

\* Both clamps have acted: rows was cut to the upper limit and mines to the
\* number of cells less one.
C33_ClampedSettings ==
  LET d == app["host"].difficulty
  IN /\ app["host"].gameMode = "multi_host"
     /\ d.rows = MaxDim
     /\ d.cols = MinDim
     /\ d.mines = MaxDim * MinDim - 1

\* C34: the host applies the guest's intents one after the other without
\* losing an update, also when an intent is delivered before the host
\* re-rendered after the one before: handling a CLICK_CELL or a
\* RIGHT_CLICK_CELL in a game that is being played keeps every cell that was
\* revealed, and the mines, which are placed once per game, where they are.
C34_IntentsSerialised ==
  [][(/\ net["host"] # <<>>
      /\ Head(net["host"]).type \in {"CLICK_CELL", "RIGHT_CLICK_CELL"}
      /\ app["host"].gameStatus = "playing"
      /\ Deliver("host"))
       => /\ app'["host"].board.mines = app["host"].board.mines
          /\ app["host"].board.revealed \subseteq app'["host"].board.revealed]_vars

\* C35: in every state of a game whose board is not empty, the host's board
\* has exactly clamp(difficulty.rows) rows and clamp(difficulty.cols) columns,
\* also after the host changed the difficulty during a multiplayer game.
C35_BoardMatchesDifficulty ==
  LET s == app["host"]
  IN (s.gameMode # "menu" /\ s.board # NoBoard)
       => /\ s.board.rows = clamp(s.difficulty.rows)
          /\ s.board.cols = clamp(s.difficulty.cols)

\* C36: in every playing state no mine cell of a peer's board is revealed,
\* and none is in a won state; a mine cell becomes revealed only in a step
\* that sets the status to lost, on a board that holds the exploded cell (on
\* the host the loss branch of a reveal, on the guest the SYNC_BOARD of it).
C36_MinesHiddenUntilLost ==
  [][\A p \in Peers :
       LET s == app[p]
           t == app'[p]
           RevealedMines(b) == b.mines \cap b.revealed
       IN /\ t.gameStatus \in {"playing", "won"} => RevealedMines(t.board) = {}
          /\ RevealedMines(t.board) \ RevealedMines(s.board) # {}
               => (t.gameStatus = "lost" /\ t.board.exploded # {})]_vars

\* C37: every entry of the host's flag history is a toggle that changed the
\* status of a cell: a step that adds an entry changes the flag of the cell of
\* that entry, so that a right-click on a revealed cell adds none.
C37_HistoryRecordsToggles ==
  [][Len(app'["host"].flagHistory) > Len(app["host"].flagHistory)
       => LET entry == app'["host"].flagHistory[Len(app'["host"].flagHistory)]
          IN StatusOf(app'["host"].board, entry) # StatusOf(app["host"].board, entry)]_vars

\* C38: the host enters multi_host only while a guest connection is open:
\* handleStartMultiplayer does nothing unless guestConnected, and guestConnected
\* does not stay true after the guest disconnected in the lobby.  (A
\* connection the other end has closed counts as open until its close event
\* has been handled.)
C38_StartOnlyWhenConnected ==
  [][(app["host"].gameMode = "menu" /\ app'["host"].gameMode = "multi_host")
       => /\ app["host"].guestConnected
          /\ conn["host"] \in {"open", "closing"}]_vars

\* C39: after destroy() has returned, and until the next call of initialize,
\* the manager holds no Peer and no connection and none is created: an
\* initialize that was waiting in the grace period of cleanupOldPeer when
\* destroy was called creates no Peer afterwards.
C39_DestroyIsFinal ==
  \A p \in Peers :
    manager[p].destroyed
      => /\ manager[p].peer = 0
         /\ manager[p].live = {}
         /\ conn[p] \in {"none", "destroyed"}

\* C40: when the guest has called handleJoinGame with the code of a host
\* whose Peer is open, the guest's data connection is eventually opened and
\* the guest is waiting for the host.
C40_JoinConnects ==
  (manager["guest"].calls > 0 /\ manager["host"].peer # 0 /\ manager["host"].opened)
    ~> (conn["guest"] = "open" /\ app["guest"].waitingForHost)

====
